---- MODULE Spec2Model ----
(***************************************************************************)
(* Model of pkg/controller/mongodb/mongodb_controller.go: the              *)
(* ReplicaSetReconciler.  One Reconcile invocation is a sequence of steps  *)
(* separated by the calls it makes to the external store (Get of the       *)
(* MongoDB resource, CreateOrUpdate of the ConfigMap, CreateOrUpdate of    *)
(* the StatefulSet); the builders are pure operators.  Several workers     *)
(* may run Reconcile at the same time (redelivery of a request, or two     *)
(* operator replicas), and a user may create, change or delete MongoDB     *)
(* resources in between.                                                   *)
(***************************************************************************)
EXTENDS Integers, Sequences, FiniteSets, TLC

VARIABLES
    mdbStore,     \* the MongoDB resources in the API server, by identity
    cmStore,      \* the ConfigMaps in the API server, by <<namespace, name>>
    stsStore,     \* the StatefulSets in the API server, by <<namespace, name>>
    agentImage,   \* the value of the AGENT_IMAGE environment variable
    pc,           \* per worker: position of its Reconcile invocation
    request,      \* per worker: request.NamespacedName
    mdb,          \* per worker: the local mdb read by client.Get
    result,       \* per worker: the (reconcile.Result, error) returned
    trace,        \* per worker: the store calls and builds made, in order
    overlap,      \* per worker: another run for the same identity was in flight
    lastDone,     \* per identity: what the last non-overlapped Done run left
    updates,      \* number of user changes so far
    domainCall    \* a call of getDomain: its arguments and what it returned

vars == <<mdbStore, cmStore, stsStore, agentImage, pc, request, mdb, result,
          trace, overlap, lastDone, updates, domainCall>>

----------------------------------------------------------------------------
(* Bounds and input sets *)

MaxUpdates == 2

Workers == {"w1", "w2"}

Identities == {<<"ns1", "my-rs">>, <<"ns2", "ghost">>}

\* the Spec values a user may declare: <<members, version>>
SpecChoices == {<<0, "4.2.0">>, <<1, "4.0.6">>, <<3, "4.2.0">>}

AgentImages == {"", "quay.io/agent:1"}

----------------------------------------------------------------------------
(* Constants of the controller *)

automationConfigKey == "automation-config"
agentName == "mongodb-agent"
ReplicaSetTopology == "replica-set"

----------------------------------------------------------------------------
(* The MongoDB resource *)

MongoDB(ns, name, members, version) ==
    [Namespace |-> ns, Name |-> name, Members |-> members, Version |-> version]

\* mdb := mdbv1.MongoDB{}
ZeroMongoDB == MongoDB("", "", 0, "")

ServiceName(m) == m.Name \o "-service"

ConfigMapName(m) == m.Name \o "-config"

----------------------------------------------------------------------------
(* Builders of the packages the controller uses *)

\* automationconfig.NewBuilder()...Build()
AutomationConfigBuild(topology, name, domain, members, mdbVersion, acVersion) ==
    [Topology |-> topology, Name |-> name, Domain |-> domain,
     Members |-> members, MongoDBVersion |-> mdbVersion, Version |-> acVersion]

\* configmap.Builder()...Build()
ConfigMapBuild(name, namespace, key, value) ==
    [Name |-> name, Namespace |-> namespace, Data |-> (key :> value)]

\* statefulset.NewBuilder()...Build(): rejects an invalid replica count
StatefulSetBuild(podTemplateSpec, namespace, name, replicas, labels, matchLabels) ==
    IF replicas < 1
    THEN [err |-> "BuildError",
          sts |-> [Namespace |-> "", Name |-> "", Replicas |-> 0,
                   Labels |-> << >>, MatchLabels |-> << >>,
                   PodTemplateSpec |-> [Labels |-> << >>, Containers |-> << >>]]]
    ELSE [err |-> "nil",
          sts |-> [Namespace |-> namespace, Name |-> name, Replicas |-> replicas,
                   Labels |-> labels, MatchLabels |-> matchLabels,
                   PodTemplateSpec |-> podTemplateSpec]]

\* client.CreateOrUpdate: create if absent, replace as a whole if present,
\* keyed by namespace and name
CreateOrUpdate(store, obj) ==
    LET key == <<obj.Namespace, obj.Name>>
    IN  [k \in (DOMAIN store) \cup {key} |-> IF k = key THEN obj ELSE store[k]]

\* json.Marshal of the automation config: the fields in declaration order
Marshal(ac) ==
    <<ac.Topology, ac.Name, ac.Domain, ac.Members, ac.MongoDBVersion, ac.Version>>

\* the document an agent decodes from the payload
Unmarshal(bytes) ==
    [Topology |-> bytes[1], Name |-> bytes[2], Domain |-> bytes[3],
     Members |-> bytes[4], MongoDBVersion |-> bytes[5], Version |-> bytes[6]]

----------------------------------------------------------------------------
(* The builders of the controller *)

\* slip: the default of an empty cluster domain is missing
getDomain_NoDefault(service, namespace, clusterName) ==
    service \o "." \o namespace \o ".svc." \o clusterName

getDomain(service, namespace, clusterName) ==
    service \o "." \o namespace \o ".svc." \o
        (IF clusterName = "" THEN "cluster.local" ELSE clusterName)

\* a call of getDomain, before it returns and after
DomainCall(service, namespace, clusterName, returned, res) ==
    [service |-> service, namespace |-> namespace, clusterName |-> clusterName,
     returned |-> returned, result |-> res]

\* no call of getDomain on its own is under way
NoDomainCall == DomainCall("", "", "", FALSE, "")

\* the automation config version the ConfigMap of m holds now, 0 if none
StoredVersion(m) ==
    LET key == <<m.Namespace, ConfigMapName(m)>>
    IN  IF key \in DOMAIN cmStore
        THEN Unmarshal(cmStore[key].Data[automationConfigKey]).Version
        ELSE 0

\* slip: the version is bumped from the stored one on every build
buildAutomationConfig_Bump(m) ==
    AutomationConfigBuild(ReplicaSetTopology, m.Name,
                          getDomain(ServiceName(m), m.Namespace, m.Name),
                          m.Members, m.Version, StoredVersion(m) + 1)

\* slip: the version is taken from a field of the Spec
buildAutomationConfig_SpecVersion(m) ==
    AutomationConfigBuild(ReplicaSetTopology, m.Name,
                          getDomain(ServiceName(m), m.Namespace, m.Name),
                          m.Members, m.Version, m.Members)

buildAutomationConfig(m) ==
    LET domain == getDomain(ServiceName(m), m.Namespace, m.Name)
    IN  AutomationConfigBuild(ReplicaSetTopology, m.Name, domain,
                              m.Members, m.Version, 1)

buildAutomationConfigConfigMap(m) ==
    LET ac == buildAutomationConfig(m)
        acBytes == Marshal(ac)
    IN  ConfigMapBuild(ConfigMapName(m), m.Namespace, automationConfigKey, acBytes)

\* slip: SetName is given the name of the agent instead of mdb.Name
buildStatefulSet_Name(m) ==
    LET labels == ("dummy" :> "label")
        agentContainer == [Name |-> agentName, Image |-> agentImage,
                           Resources |-> "defaults",
                           Command |-> <<"agent/mongodb-agent",
                               "-cluster=/var/lib/automation/config/automation-config.json">>]
        podSpecTemplate == [Labels |-> labels, Containers |-> <<agentContainer>>]
    IN  StatefulSetBuild(podSpecTemplate, m.Namespace, agentName, m.Members,
                         labels, labels)

\* slip: SetReplicas is given a fixed count instead of mdb.Spec.Members
buildStatefulSet_Replicas(m) ==
    LET labels == ("dummy" :> "label")
        agentContainer == [Name |-> agentName, Image |-> agentImage,
                           Resources |-> "defaults",
                           Command |-> <<"agent/mongodb-agent",
                               "-cluster=/var/lib/automation/config/automation-config.json">>]
        podSpecTemplate == [Labels |-> labels, Containers |-> <<agentContainer>>]
    IN  StatefulSetBuild(podSpecTemplate, m.Namespace, m.Name,
                         IF m.Members < 1 THEN m.Members ELSE 1, labels, labels)

buildStatefulSet(m) ==
    LET labels == ("dummy" :> "label")
        agentContainer == [Name |-> agentName, Image |-> agentImage,
                           Resources |-> "defaults",
                           Command |-> <<"agent/mongodb-agent",
                               "-cluster=/var/lib/automation/config/automation-config.json">>]
        podSpecTemplate == [Labels |-> labels, Containers |-> <<agentContainer>>]
    IN  StatefulSetBuild(podSpecTemplate, m.Namespace, m.Name, m.Members,
                         labels, labels)

----------------------------------------------------------------------------
(* Helpers of the state machine *)

Active(w) == pc[w] \in {"Start", "Fetched", "ConfigEnsured", "WorkloadEnsured"}

Returned(w) == pc[w] \in {"Done", "NotFound", "Failed"}

Event(op, err) == [op |-> op, err |-> err]

\* the entry of a store under a key: a sequence of zero or one object
Lookup(store, key) == IF key \in DOMAIN store THEN <<store[key]>> ELSE << >>

ConfigMapKey(id) == <<id[1], id[2] \o "-config">>

StatefulSetKey(id) == id

\* return reconcile.Result{}, err
Return(w, state, err) ==
    /\ pc' = [pc EXCEPT ![w] = state]
    /\ result' = [result EXCEPT ![w] = [Requeue |-> FALSE, err |-> err]]

----------------------------------------------------------------------------
(* The environment: users and the dispatcher *)

\* a user creates or changes the MongoDB resource of an identity
UserApply(id, c) ==
    /\ updates < MaxUpdates
    /\ LET new == MongoDB(id[1], id[2], c[1], c[2])
       IN  /\ Lookup(mdbStore, id) # <<new>>
           /\ mdbStore' = (id :> new) @@ mdbStore
    /\ updates' = updates + 1
    /\ UNCHANGED <<cmStore, stsStore, agentImage, pc, request, mdb, result,
                   trace, overlap, lastDone,
                   domainCall>>

\* a user deletes the MongoDB resource of an identity
UserDelete(id) ==
    /\ updates < MaxUpdates
    /\ id \in DOMAIN mdbStore
    /\ mdbStore' = [k \in (DOMAIN mdbStore) \ {id} |-> mdbStore[k]]
    /\ updates' = updates + 1
    /\ UNCHANGED <<cmStore, stsStore, agentImage, pc, request, mdb, result,
                   trace, overlap, lastDone,
                   domainCall>>

\* the controller hands a request to a free worker: Reconcile(request) starts
Dispatch(w, id) ==
    /\ ~Active(w)
    /\ pc' = [pc EXCEPT ![w] = "Start"]
    /\ request' = [request EXCEPT ![w] = id]
    /\ mdb' = [mdb EXCEPT ![w] = ZeroMongoDB]
    /\ result' = [result EXCEPT ![w] = [Requeue |-> FALSE, err |-> "nil"]]
    /\ trace' = [trace EXCEPT ![w] = << >>]
    /\ overlap' = [v \in Workers |->
                     IF v = w
                     THEN \E u \in Workers \ {w} : Active(u) /\ request[u] = id
                     ELSE overlap[v] \/ (Active(v) /\ request[v] = id)]
    /\ UNCHANGED <<mdbStore, cmStore, stsStore, agentImage, lastDone, updates,
                   domainCall>>

----------------------------------------------------------------------------
(* Reconcile, step by step *)

\* slip: the resource is defaulted after the Get and written back
GetFound_WritesDefaults(w) ==
    /\ pc[w] = "Start"
    /\ request[w] \in DOMAIN mdbStore
    /\ LET m == mdbStore[request[w]]
           defaulted == [m EXCEPT !.Members = IF @ < 1 THEN 1 ELSE @]
       IN  /\ mdb' = [mdb EXCEPT ![w] = defaulted]
           /\ mdbStore' = [mdbStore EXCEPT ![request[w]] = defaulted]
    /\ pc' = [pc EXCEPT ![w] = "Fetched"]
    /\ trace' = [trace EXCEPT ![w] = Append(@, Event("Get", "nil"))]
    /\ UNCHANGED <<cmStore, stsStore, agentImage, request, result,
                   overlap, lastDone, updates,
                   domainCall>>

\* slip: the call of ensureAutomationConfig is missing after the Get
GetFound_SkipConfig(w) ==
    /\ pc[w] = "Start"
    /\ request[w] \in DOMAIN mdbStore
    /\ mdb' = [mdb EXCEPT ![w] = mdbStore[request[w]]]
    /\ pc' = [pc EXCEPT ![w] = "ConfigEnsured"]
    /\ trace' = [trace EXCEPT ![w] = Append(@, Event("Get", "nil"))]
    /\ UNCHANGED <<mdbStore, cmStore, stsStore, agentImage, request, result,
                   overlap, lastDone, updates,
                   domainCall>>

\* r.client.Get succeeds
GetFound(w) ==
    /\ pc[w] = "Start"
    /\ request[w] \in DOMAIN mdbStore
    /\ mdb' = [mdb EXCEPT ![w] = mdbStore[request[w]]]
    /\ pc' = [pc EXCEPT ![w] = "Fetched"]
    /\ trace' = [trace EXCEPT ![w] = Append(@, Event("Get", "nil"))]
    /\ UNCHANGED <<mdbStore, cmStore, stsStore, agentImage, request, result,
                   overlap, lastDone, updates,
                   domainCall>>

\* slip: the IsNotFound test is missing, the error is returned
GetNotFound_Requeue(w) ==
    /\ pc[w] = "Start"
    /\ request[w] \notin DOMAIN mdbStore
    /\ trace' = [trace EXCEPT ![w] = Append(@, Event("Get", "NotFoundError"))]
    /\ Return(w, "Failed", "NotFoundError")
    /\ UNCHANGED <<mdbStore, cmStore, stsStore, agentImage, request, mdb,
                   overlap, lastDone, updates,
                   domainCall>>

\* r.client.Get fails with IsNotFound: return reconcile.Result{}, nil
GetNotFound(w) ==
    /\ pc[w] = "Start"
    /\ request[w] \notin DOMAIN mdbStore
    /\ trace' = [trace EXCEPT ![w] = Append(@, Event("Get", "NotFoundError"))]
    /\ Return(w, "NotFound", "nil")
    /\ UNCHANGED <<mdbStore, cmStore, stsStore, agentImage, request, mdb,
                   overlap, lastDone, updates,
                   domainCall>>

\* r.client.Get fails with another error: return reconcile.Result{}, err
GetError(w) ==
    /\ pc[w] = "Start"
    /\ trace' = [trace EXCEPT ![w] = Append(@, Event("Get", "ReadError"))]
    /\ Return(w, "Failed", "ReadError")
    /\ UNCHANGED <<mdbStore, cmStore, stsStore, agentImage, request, mdb,
                   overlap, lastDone, updates,
                   domainCall>>

\* ensureAutomationConfig: json.Marshal fails
EnsureAutomationConfigMarshalError(w) ==
    /\ pc[w] = "Fetched"
    /\ trace' = [trace EXCEPT ![w] =
                   Append(@, Event("BuildConfigMap", "SerializationError"))]
    /\ Return(w, "Failed", "SerializationError")
    /\ UNCHANGED <<mdbStore, cmStore, stsStore, agentImage, request, mdb,
                   overlap, lastDone, updates,
                   domainCall>>

\* slip: a failed CreateOrUpdate(&cm) is tried again inside the invocation
EnsureAutomationConfigUpsertError_Retry(w) ==
    /\ pc[w] = "Fetched"
    /\ trace' = [trace EXCEPT ![w] =
                   @ \o <<Event("BuildConfigMap", "nil"),
                          Event("UpsertConfigMap", "UpsertError")>>]
    /\ UNCHANGED <<mdbStore, cmStore, stsStore, agentImage, pc, request, mdb,
                   result, overlap, lastDone, updates,
                   domainCall>>

\* slip: the error of ensureAutomationConfig is logged and not returned
EnsureAutomationConfigUpsertError_Ignored(w) ==
    /\ pc[w] = "Fetched"
    /\ trace' = [trace EXCEPT ![w] =
                   @ \o <<Event("BuildConfigMap", "nil"),
                          Event("UpsertConfigMap", "UpsertError")>>]
    /\ pc' = [pc EXCEPT ![w] = "ConfigEnsured"]
    /\ UNCHANGED <<mdbStore, cmStore, stsStore, agentImage, request, mdb, result,
                   overlap, lastDone, updates,
                   domainCall>>

\* ensureAutomationConfig: r.client.CreateOrUpdate(&cm) fails
EnsureAutomationConfigUpsertError(w) ==
    /\ pc[w] = "Fetched"
    /\ trace' = [trace EXCEPT ![w] =
                   @ \o <<Event("BuildConfigMap", "nil"),
                          Event("UpsertConfigMap", "UpsertError")>>]
    /\ Return(w, "Failed", "UpsertError")
    /\ UNCHANGED <<mdbStore, cmStore, stsStore, agentImage, request, mdb,
                   overlap, lastDone, updates,
                   domainCall>>

\* slip: the ConfigMap is created when absent and left alone when present
EnsureAutomationConfigOK_CreateOnly(w) ==
    /\ pc[w] = "Fetched"
    /\ LET cm == buildAutomationConfigConfigMap(mdb[w])
       IN  cmStore' = IF <<cm.Namespace, cm.Name>> \in DOMAIN cmStore
                      THEN cmStore
                      ELSE CreateOrUpdate(cmStore, cm)
    /\ trace' = [trace EXCEPT ![w] =
                   @ \o <<Event("BuildConfigMap", "nil"),
                          Event("UpsertConfigMap", "nil")>>]
    /\ pc' = [pc EXCEPT ![w] = "ConfigEnsured"]
    /\ UNCHANGED <<mdbStore, stsStore, agentImage, request, mdb, result,
                   overlap, lastDone, updates,
                   domainCall>>

\* ensureAutomationConfig succeeds
EnsureAutomationConfigOK(w) ==
    /\ pc[w] = "Fetched"
    /\ cmStore' = CreateOrUpdate(cmStore, buildAutomationConfigConfigMap(mdb[w]))
    /\ trace' = [trace EXCEPT ![w] =
                   @ \o <<Event("BuildConfigMap", "nil"),
                          Event("UpsertConfigMap", "nil")>>]
    /\ pc' = [pc EXCEPT ![w] = "ConfigEnsured"]
    /\ UNCHANGED <<mdbStore, stsStore, agentImage, request, mdb, result,
                   overlap, lastDone, updates,
                   domainCall>>

\* slip: the build error is returned, which requeues the request
BuildStatefulSetError_Requeue(w) ==
    /\ pc[w] = "ConfigEnsured"
    /\ buildStatefulSet(mdb[w]).err # "nil"
    /\ trace' = [trace EXCEPT ![w] =
                   Append(@, Event("BuildStatefulSet", buildStatefulSet(mdb[w]).err))]
    /\ Return(w, "Failed", buildStatefulSet(mdb[w]).err)
    /\ UNCHANGED <<mdbStore, cmStore, stsStore, agentImage, request, mdb,
                   overlap, lastDone, updates,
                   domainCall>>

\* buildStatefulSet fails: return reconcile.Result{}, nil
BuildStatefulSetError(w) ==
    /\ pc[w] = "ConfigEnsured"
    /\ buildStatefulSet(mdb[w]).err # "nil"
    /\ trace' = [trace EXCEPT ![w] =
                   Append(@, Event("BuildStatefulSet", buildStatefulSet(mdb[w]).err))]
    /\ Return(w, "Failed", "nil")
    /\ UNCHANGED <<mdbStore, cmStore, stsStore, agentImage, request, mdb,
                   overlap, lastDone, updates,
                   domainCall>>

\* slip: the error of CreateOrUpdate(&sts) is logged and nil is returned
UpsertStatefulSetError_Swallowed(w) ==
    /\ pc[w] = "ConfigEnsured"
    /\ buildStatefulSet(mdb[w]).err = "nil"
    /\ trace' = [trace EXCEPT ![w] =
                   @ \o <<Event("BuildStatefulSet", "nil"),
                          Event("UpsertStatefulSet", "UpsertError")>>]
    /\ Return(w, "Failed", "nil")
    /\ UNCHANGED <<mdbStore, cmStore, stsStore, agentImage, request, mdb,
                   overlap, lastDone, updates,
                   domainCall>>

\* r.client.CreateOrUpdate(&sts) fails: return reconcile.Result{}, err
UpsertStatefulSetError(w) ==
    /\ pc[w] = "ConfigEnsured"
    /\ buildStatefulSet(mdb[w]).err = "nil"
    /\ trace' = [trace EXCEPT ![w] =
                   @ \o <<Event("BuildStatefulSet", "nil"),
                          Event("UpsertStatefulSet", "UpsertError")>>]
    /\ Return(w, "Failed", "UpsertError")
    /\ UNCHANGED <<mdbStore, cmStore, stsStore, agentImage, request, mdb,
                   overlap, lastDone, updates,
                   domainCall>>

\* r.client.CreateOrUpdate(&sts) succeeds
UpsertStatefulSetOK(w) ==
    /\ pc[w] = "ConfigEnsured"
    /\ buildStatefulSet(mdb[w]).err = "nil"
    /\ stsStore' = CreateOrUpdate(stsStore, buildStatefulSet(mdb[w]).sts)
    /\ trace' = [trace EXCEPT ![w] =
                   @ \o <<Event("BuildStatefulSet", "nil"),
                          Event("UpsertStatefulSet", "nil")>>]
    /\ pc' = [pc EXCEPT ![w] = "WorkloadEnsured"]
    /\ UNCHANGED <<mdbStore, cmStore, agentImage, request, mdb, result,
                   overlap, lastDone, updates,
                   domainCall>>

\* what the stores hold for an identity
Snapshot(id, m) ==
    [mdb |-> m,
     cm  |-> Lookup(cmStore, ConfigMapKey(id)),
     sts |-> Lookup(stsStore, StatefulSetKey(id))]

\* "Successfully finished reconciliation": return reconcile.Result{}, nil
Finish(w) ==
    /\ pc[w] = "WorkloadEnsured"
    /\ Return(w, "Done", "nil")
    /\ lastDone' = IF overlap[w]
                   THEN lastDone
                   ELSE (request[w] :> Snapshot(request[w], mdb[w])) @@ lastDone
    /\ UNCHANGED <<mdbStore, cmStore, stsStore, agentImage, request, mdb,
                   trace, overlap, updates,
                   domainCall>>

----------------------------------------------------------------------------
(* The specification *)

Init ==
    /\ mdbStore = << >>
    /\ cmStore = << >>
    /\ stsStore = << >>
    /\ agentImage \in AgentImages
    /\ pc = [w \in Workers |-> "Idle"]
    /\ request = [w \in Workers |-> <<"", "">>]
    /\ mdb = [w \in Workers |-> ZeroMongoDB]
    /\ result = [w \in Workers |-> [Requeue |-> FALSE, err |-> "nil"]]
    /\ trace = [w \in Workers |-> << >>]
    /\ overlap = [w \in Workers |-> FALSE]
    /\ lastDone = << >>
    /\ updates = 0
    /\ domainCall = NoDomainCall

Next ==
    \/ \E id \in Identities, c \in SpecChoices : UserApply(id, c)
    \/ \E id \in Identities : UserDelete(id)
    \/ \E w \in Workers, id \in Identities : Dispatch(w, id)
    \/ \E w \in Workers : GetFound(w)
    \/ \E w \in Workers : GetNotFound(w)
    \/ \E w \in Workers : GetError(w)
    \/ \E w \in Workers : EnsureAutomationConfigMarshalError(w)
    \/ \E w \in Workers : EnsureAutomationConfigUpsertError(w)
    \/ \E w \in Workers : EnsureAutomationConfigOK(w)
    \/ \E w \in Workers : BuildStatefulSetError(w)
    \/ \E w \in Workers : UpsertStatefulSetError(w)
    \/ \E w \in Workers : UpsertStatefulSetOK(w)
    \/ \E w \in Workers : Finish(w)

Spec == Init /\ [][Next]_vars

----------------------------------------------------------------------------
(* What an invocation did, read from its trace *)

Did(w, op) == \E i \in 1..Len(trace[w]) : trace[w][i].op = op

DidWith(w, op, err) == \E i \in 1..Len(trace[w]) : trace[w][i] = Event(op, err)

UpsertCalls(w) ==
    Cardinality({i \in 1..Len(trace[w]) :
                    trace[w][i].op \in {"UpsertConfigMap", "UpsertStatefulSet"}})

\* the outcome handed to the controller: no error and no requeue
ReportsDone(w) == Returned(w) /\ result[w] = [Requeue |-> FALSE, err |-> "nil"]

\* the outcome handed to the controller: the error, so the request is requeued
ReportsRequeue(w, err) ==
    Returned(w) /\ err # "nil" /\ result[w] = [Requeue |-> FALSE, err |-> err]

----------------------------------------------------------------------------
(* Claims *)

\* C1: an invocation whose Get returned not-found is in the terminal state
\* NotFound, returned no error and no requeue, and made no further call: no
\* ConfigMap and no StatefulSet upsert.
C1_NotFoundEndsCleanly ==
    \A w \in Workers :
        DidWith(w, "Get", "NotFoundError") =>
            /\ pc[w] = "NotFound"
            /\ ReportsDone(w)
            /\ UpsertCalls(w) = 0
            /\ Len(trace[w]) = 1

C1_Witness ==
    \E w \in Workers :
        /\ pc[w] = "NotFound"
        /\ request[w] = <<"ns2", "ghost">>
        /\ request[w] \notin DOMAIN mdbStore
        /\ DidWith(w, "Get", "NotFoundError")

\* C2: an invocation whose ConfigMap upsert failed has returned that error
\* (requeue) and has neither built nor upserted a StatefulSet.
C2_ConfigUpsertFailureHalts ==
    \A w \in Workers :
        DidWith(w, "UpsertConfigMap", "UpsertError") =>
            /\ pc[w] = "Failed"
            /\ ReportsRequeue(w, "UpsertError")
            /\ ~Did(w, "BuildStatefulSet")
            /\ ~Did(w, "UpsertStatefulSet")

C2_Witness ==
    \E w \in Workers :
        /\ pc[w] = "Failed"
        /\ DidWith(w, "UpsertConfigMap", "UpsertError")
        /\ mdb[w].Members = 3

\* C3: a failed read (other than not-found), a failed serialization, a failed
\* ConfigMap upsert and a failed StatefulSet upsert each end the invocation
\* with the error returned (requeue); after a failed read no upsert is made.
C3_RetryableFailuresRequeue ==
    \A w \in Workers :
        /\ DidWith(w, "Get", "ReadError") =>
               ReportsRequeue(w, "ReadError") /\ UpsertCalls(w) = 0
        /\ DidWith(w, "BuildConfigMap", "SerializationError") =>
               ReportsRequeue(w, "SerializationError")
        /\ DidWith(w, "UpsertConfigMap", "UpsertError") =>
               ReportsRequeue(w, "UpsertError")
        /\ DidWith(w, "UpsertStatefulSet", "UpsertError") =>
               ReportsRequeue(w, "UpsertError")

C3_Witness ==
    /\ DidWith("w1", "UpsertStatefulSet", "UpsertError")
    /\ pc["w1"] = "Failed"
    /\ \/ DidWith("w2", "Get", "ReadError")
       \/ DidWith("w2", "BuildConfigMap", "SerializationError")
    /\ pc["w2"] = "Failed"

\* C4: an invocation whose StatefulSet build failed is in Failed, returned
\* no error and no requeue, and made no StatefulSet upsert.
C4_BuildFailureNotRetried ==
    \A w \in Workers :
        (Did(w, "BuildStatefulSet") /\ ~DidWith(w, "BuildStatefulSet", "nil")) =>
            /\ pc[w] = "Failed"
            /\ result[w].Requeue = FALSE
            /\ result[w].err = "nil"
            /\ ~Did(w, "UpsertStatefulSet")

C4_Witness ==
    \E w \in Workers :
        /\ pc[w] = "Failed"
        /\ mdb[w].Members = 0
        /\ DidWith(w, "BuildStatefulSet", "BuildError")

\* C5: an invocation returns no error and no requeue only if its Get
\* returned not-found or both its ConfigMap upsert and its StatefulSet
\* upsert succeeded.
C5_DoneOnlyOnSuccess ==
    \A w \in Workers :
        ReportsDone(w) =>
            \/ DidWith(w, "Get", "NotFoundError")
            \/ /\ DidWith(w, "UpsertConfigMap", "nil")
               /\ DidWith(w, "UpsertStatefulSet", "nil")

\* what the payload of the ConfigMap stored for an identity decodes to
StoredDocument(id) ==
    Unmarshal(cmStore[ConfigMapKey(id)].Data[automationConfigKey])

\* the step in which worker w returns from a successful reconciliation
Finishes(w) == pc[w] = "WorkloadEnsured" /\ pc'[w] = "Done"

\* C6: when a reconciliation that overlapped no other run for its identity
\* finishes, and the previous such reconciliation of the identity had read
\* the same MongoDB resource, the ConfigMap and the StatefulSet the stores
\* hold for the identity are the ones that previous reconciliation left.
C6_Idempotent ==
    [][\A w \in Workers :
          (/\ Finishes(w)
           /\ ~overlap[w]
           /\ request[w] \in DOMAIN lastDone
           /\ lastDone[request[w]].mdb = mdb[w])
          => /\ lastDone'[request[w]] = lastDone[request[w]]
             /\ Len(lastDone'[request[w]].cm) = 1
             /\ Len(lastDone'[request[w]].sts) = 1]_vars

\* two runs that did not overlap, hence ran one after the other, read the
\* same resource and both finished
C6_Witness ==
    /\ pc["w1"] = "Done" /\ pc["w2"] = "Done"
    /\ ~overlap["w1"] /\ ~overlap["w2"]
    /\ request["w1"] = request["w2"]
    /\ mdb["w1"] = mdb["w2"]
    /\ request["w1"] \in DOMAIN lastDone
    /\ lastDone[request["w1"]].mdb = mdb["w1"]

\* C7: when two overlapping reconciliations of one identity that read the
\* same MongoDB resource have both finished, the stores hold for the identity
\* exactly the ConfigMap and the StatefulSet built from that resource.
C7_ConcurrentSameInput ==
    \A w \in Workers, v \in Workers :
        (/\ w # v
         /\ pc[w] = "Done" /\ pc[v] = "Done"
         /\ overlap[w] /\ overlap[v]
         /\ request[w] = request[v]
         /\ mdb[w] = mdb[v])
        => /\ Lookup(cmStore, ConfigMapKey(request[w]))
                = <<buildAutomationConfigConfigMap(mdb[w])>>
           /\ Lookup(stsStore, StatefulSetKey(request[w]))
                = <<buildStatefulSet(mdb[w]).sts>>

C7_Witness ==
    /\ pc["w1"] = "Done" /\ pc["w2"] = "Done"
    /\ overlap["w1"] /\ overlap["w2"]
    /\ request["w1"] = request["w2"]
    /\ mdb["w1"] = mdb["w2"]
    /\ mdb["w1"].Members = 3

C9_ConfigArtifactContent ==
    \A w \in Workers :
        pc[w] \in {"ConfigEnsured", "WorkloadEnsured"} =>
            LET cm == buildAutomationConfigConfigMap(mdb[w])
                doc == Unmarshal(cm.Data[automationConfigKey])
            IN  /\ cm.Name = mdb[w].Name \o "-config"
                /\ cm.Namespace = mdb[w].Namespace
                /\ doc.Topology = "replica-set"
                /\ doc.Members = mdb[w].Members
                /\ doc.Domain = ServiceName(mdb[w]) \o "." \o mdb[w].Namespace
                                    \o ".svc.cluster.local"

\* C10: when a reconciliation that overlapped no other run for its identity
\* finishes, the stored document has the members and the version of the
\* resource it read, and the StatefulSet stored under the namespace and name
\* of the resource has its members as replicas.
C10_ArtifactsAgreeWithSpec ==
    [][\A w \in Workers :
          (Finishes(w) /\ ~overlap[w]) =>
              LET d == mdb[w]
                  id == <<d.Namespace, d.Name>>
              IN  /\ id = request[w]
                  /\ ConfigMapKey(id) \in DOMAIN cmStore'
                  /\ Unmarshal(cmStore'[ConfigMapKey(id)].Data[automationConfigKey]).Members
                         = d.Members
                  /\ Unmarshal(cmStore'[ConfigMapKey(id)].Data[automationConfigKey]).MongoDBVersion
                         = d.Version
                  /\ id \in DOMAIN stsStore'
                  /\ stsStore'[id].Replicas = d.Members
                  /\ stsStore'[id].Namespace = d.Namespace
                  /\ stsStore'[id].Name = d.Name]_vars

C10_Witness ==
    \E w \in Workers :
        /\ pc[w] = "Done"
        /\ ~overlap[w]
        /\ mdb[w] = MongoDB("ns1", "my-rs", 3, "4.2.0")
        /\ StoredDocument(request[w]).Members = 3
        /\ stsStore[request[w]].Replicas = 3

\* the keys under which a step changed a store (created or replaced an object)
Written(old, new) ==
    {k \in DOMAIN new : k \notin DOMAIN old \/ new[k] # old[k]}

Count(w, op) == Cardinality({i \in 1..Len(trace[w]) : trace[w][i].op = op})

\* C11: every step writes a store only under the key made from the identity
\* of the request of the worker that takes it, the ConfigMap under
\* <<namespace, name-config>> and the StatefulSet under <<namespace, name>>,
\* and removes nothing; an invocation makes at most one upsert of each; and a
\* reconciliation that finishes without an overlapping run for its own
\* identity leaves exactly its two artifacts for that identity, whatever runs
\* for other identities are doing meanwhile.
C11_ArtifactsKeyedByIdentity ==
    [][/\ \A k \in Written(cmStore, cmStore') :
              \E w \in Workers : pc'[w] # pc[w] /\ k = ConfigMapKey(request[w])
       /\ \A k \in Written(stsStore, stsStore') :
              \E w \in Workers : pc'[w] # pc[w] /\ k = StatefulSetKey(request[w])
       /\ DOMAIN cmStore \subseteq DOMAIN cmStore'
       /\ DOMAIN stsStore \subseteq DOMAIN stsStore'
       /\ \A w \in Workers :
              /\ Count(w, "UpsertConfigMap")' <= 1
              /\ Count(w, "UpsertStatefulSet")' <= 1
              /\ (Finishes(w) /\ ~overlap[w]) =>
                     /\ Lookup(cmStore', ConfigMapKey(request[w]))
                            = <<buildAutomationConfigConfigMap(mdb[w])>>
                     /\ Lookup(stsStore', StatefulSetKey(request[w]))
                            = <<buildStatefulSet(mdb[w]).sts>>]_vars

\* two reconciliations for different identities in flight at the same time,
\* each having written
C11_Witness ==
    /\ pc["w1"] = "WorkloadEnsured" /\ pc["w2"] = "ConfigEnsured"
    /\ request["w1"] # request["w2"]
    /\ ~overlap["w1"] /\ ~overlap["w2"]
    /\ StatefulSetKey(request["w1"]) \in DOMAIN stsStore
    /\ ConfigMapKey(request["w2"]) \in DOMAIN cmStore
    /\ StatefulSetKey(request["w2"]) \notin DOMAIN stsStore

\* the calls of one invocation, in the order of Reconcile
StepOrder ==
    <<"Get", "BuildConfigMap", "UpsertConfigMap", "BuildStatefulSet",
      "UpsertStatefulSet">>

\* the trace is a prefix of StepOrder and only its last call may have failed
TraceOrdered(w) ==
    /\ Len(trace[w]) <= Len(StepOrder)
    /\ \A i \in 1..Len(trace[w]) :
           /\ trace[w][i].op = StepOrder[i]
           /\ i < Len(trace[w]) => trace[w][i].err = "nil"

\* the transitions of the state machine of one invocation
StateEdges ==
    {<<"Idle", "Start">>, <<"Done", "Start">>, <<"NotFound", "Start">>,
     <<"Failed", "Start">>,
     <<"Start", "Fetched">>, <<"Start", "NotFound">>, <<"Start", "Failed">>,
     <<"Fetched", "ConfigEnsured">>, <<"Fetched", "Failed">>,
     <<"ConfigEnsured", "WorkloadEnsured">>, <<"ConfigEnsured", "Failed">>,
     <<"WorkloadEnsured", "Done">>}

\* how far the calls of an invocation have got in each state
StateMatchesTrace(w) ==
    /\ pc[w] \in {"Idle", "Start"} => trace[w] = << >>
    /\ pc[w] = "Fetched" => Len(trace[w]) = 1 /\ trace[w][1].err = "nil"
    /\ pc[w] = "ConfigEnsured" => Len(trace[w]) = 3 /\ trace[w][3].err = "nil"
    /\ pc[w] \in {"WorkloadEnsured", "Done"} =>
           Len(trace[w]) = 5 /\ trace[w][5].err = "nil"
    /\ pc[w] = "NotFound" => trace[w] = <<Event("Get", "NotFoundError")>>
    /\ pc[w] = "Failed" =>
           /\ trace[w] # << >>
           /\ trace[w][Len(trace[w])].err \notin {"nil", "NotFoundError"}

\* C13: the calls of an invocation are a prefix of Get, ConfigMap build,
\* ConfigMap upsert, StatefulSet build, StatefulSet upsert, each made only
\* after all the earlier ones succeeded, and its state moves only along
\* Start, Fetched, ConfigEnsured, WorkloadEnsured, Done, leaving that path
\* only to NotFound (from Start) or to Failed.
C13_StrictOrder ==
    [][\A w \in Workers :
          /\ TraceOrdered(w)'
          /\ StateMatchesTrace(w)'
          /\ pc'[w] # pc[w] => <<pc[w], pc'[w]>> \in StateEdges]_vars

C13_Witness ==
    /\ pc["w1"] = "Done"
    /\ Len(trace["w1"]) = 5
    /\ pc["w2"] = "Failed"
    /\ DidWith("w2", "UpsertStatefulSet", "UpsertError")
    /\ DidWith("w2", "UpsertConfigMap", "nil")

----------------------------------------------------------------------------
(* The state a failure at step 3 leaves behind: the MongoDB resource of one
   identity exists, a first reconciliation upserted its ConfigMap and then
   failed to build or to upsert the StatefulSet *)

InitAfterStep3Failure ==
    \E id \in Identities, c \in SpecChoices :
        LET m == MongoDB(id[1], id[2], c[1], c[2])
            failure == IF buildStatefulSet(m).err # "nil"
                       THEN <<Event("BuildStatefulSet", buildStatefulSet(m).err)>>
                       ELSE <<Event("BuildStatefulSet", "nil"),
                              Event("UpsertStatefulSet", "UpsertError")>>
        IN  /\ agentImage \in AgentImages
            /\ mdbStore = (id :> m)
            /\ cmStore = CreateOrUpdate(<< >>, buildAutomationConfigConfigMap(m))
            /\ stsStore = << >>
            /\ pc = [w \in Workers |-> IF w = "w1" THEN "Failed" ELSE "Idle"]
            /\ request = [w \in Workers |-> IF w = "w1" THEN id ELSE <<"", "">>]
            /\ mdb = [w \in Workers |-> IF w = "w1" THEN m ELSE ZeroMongoDB]
            /\ result = [w \in Workers |->
                           [Requeue |-> FALSE,
                            err |-> IF w = "w1" /\ buildStatefulSet(m).err = "nil"
                                    THEN "UpsertError" ELSE "nil"]]
            /\ trace = [w \in Workers |->
                          IF w = "w1"
                          THEN <<Event("Get", "nil"), Event("BuildConfigMap", "nil"),
                                 Event("UpsertConfigMap", "nil")>> \o failure
                          ELSE << >>]
            /\ overlap = [w \in Workers |-> FALSE]
            /\ lastDone = << >>
            /\ updates = 1
            /\ domainCall = NoDomainCall

SpecAfterStep3Failure == InitAfterStep3Failure /\ [][Next]_vars

\* the state after a failure at step 3 is one the reconciler reaches
Step3FailureLeftover ==
    \E id \in DOMAIN mdbStore :
        /\ pc["w1"] = "Failed" /\ request["w1"] = id /\ pc["w2"] = "Idle"
        /\ mdb["w1"] = mdbStore[id]
        /\ ConfigMapKey(id) \in DOMAIN cmStore
        /\ stsStore = << >>
        /\ updates = 1

\* C14: after a failure at step 3 left the ConfigMap of an identity without
\* its StatefulSet, every reconciliation that finishes leaves, for its
\* identity, the ConfigMap and the StatefulSet built from the MongoDB
\* resource it read.
C14_LaterRunRepairs ==
    [][\A w \in Workers :
          Finishes(w) =>
              /\ Lookup(cmStore', ConfigMapKey(request[w]))
                     = <<buildAutomationConfigConfigMap(mdb[w])>>
              /\ Lookup(stsStore', StatefulSetKey(request[w]))
                     = <<buildStatefulSet(mdb[w]).sts>>]_vars

----------------------------------------------------------------------------
(* Reconciliations of valid resources whose store calls all succeed: users
   declare only resources the StatefulSet builder accepts and delete none,
   and no Get or CreateOrUpdate fails, so that every reconciliation of an
   existing resource that returns has made both upserts *)

UserApplyValid(id, c) == c[1] >= 1 /\ UserApply(id, c)

NextRace ==
    \/ \E id \in Identities, c \in SpecChoices : UserApplyValid(id, c)
    \/ \E w \in Workers, id \in Identities : Dispatch(w, id)
    \/ \E w \in Workers : GetFound(w)
    \/ \E w \in Workers : GetNotFound(w)
    \/ \E w \in Workers : EnsureAutomationConfigOK(w)
    \/ \E w \in Workers : UpsertStatefulSetOK(w)
    \/ \E w \in Workers : Finish(w)

SpecRace == Init /\ [][NextRace]_vars

\* C17: when no reconciliation of an identity is in flight, every worker
\* whose last request was for it finished successfully, and one of them read
\* the MongoDB resource as it is now, then the stores hold for the identity
\* the ConfigMap and the StatefulSet built from the resource as it is now.
C17_ConvergesToFinalState ==
    \A id \in DOMAIN mdbStore :
        (/\ \A v \in Workers : request[v] = id => pc[v] = "Done"
         /\ \E w \in Workers : request[w] = id /\ pc[w] = "Done"
                                  /\ mdb[w] = mdbStore[id])
        => /\ Lookup(cmStore, ConfigMapKey(id))
                = <<buildAutomationConfigConfigMap(mdbStore[id])>>
           /\ Lookup(stsStore, StatefulSetKey(id))
                = <<buildStatefulSet(mdbStore[id]).sts>>

\* C16: the StatefulSets stored for two different identities carry different
\* labels and different selectors.
C16_LabelsDistinguishClusters ==
    \A k1 \in DOMAIN stsStore, k2 \in DOMAIN stsStore :
        k1 # k2 =>
            /\ stsStore[k1].Labels # stsStore[k2].Labels
            /\ stsStore[k1].MatchLabels # stsStore[k2].MatchLabels

\* the steps of the invocation of worker w
WorkerStep(w) ==
    \/ GetFound(w)
    \/ GetNotFound(w)
    \/ GetError(w)
    \/ EnsureAutomationConfigMarshalError(w)
    \/ EnsureAutomationConfigUpsertError(w)
    \/ EnsureAutomationConfigOK(w)
    \/ BuildStatefulSetError(w)
    \/ UpsertStatefulSetError(w)
    \/ UpsertStatefulSetOK(w)
    \/ Finish(w)

\* how far along Reconcile a state is
Rank(state) ==
    CASE state = "Start" -> 1
      [] state = "Fetched" -> 2
      [] state = "ConfigEnsured" -> 3
      [] state = "WorkloadEnsured" -> 4
      [] state \in {"Done", "NotFound", "Failed"} -> 5
      [] OTHER -> 0

\* C18: an invocation reads the resource at most once, and exactly once by
\* the time it has returned, and makes at most one upsert of each artifact,
\* hence at most two upserts; while it has not returned it has a next step,
\* and every step of it moves it strictly forward along Reconcile, so it
\* returns after at most four steps in one of Done, NotFound and Failed.
C18_TerminatesWithoutRetry ==
    /\ [](\A w \in Workers :
             /\ Count(w, "Get") <= 1
             /\ Returned(w) => Count(w, "Get") = 1
             /\ Count(w, "UpsertConfigMap") <= 1
             /\ Count(w, "UpsertStatefulSet") <= 1
             /\ UpsertCalls(w) <= 2
             /\ Active(w) => ENABLED WorkerStep(w))
    /\ [][\A w \in Workers :
             /\ (Active(w) /\ trace'[w] # trace[w]) => pc'[w] # pc[w]
             /\ (Active(w) /\ pc'[w] # pc[w]) => Rank(pc'[w]) > Rank(pc[w])]_vars

C18_Witness ==
    /\ pc["w1"] = "Done" /\ UpsertCalls("w1") = 2 /\ Count("w1", "Get") = 1
    /\ pc["w2"] = "Failed" /\ UpsertCalls("w2") = 1 /\ Count("w2", "Get") = 1

\* C19: a step that changes the MongoDB resources is a step of a user, not
\* of an invocation; the ConfigMaps change only in the step in which an
\* invocation upserts its ConfigMap and the StatefulSets only in the step in
\* which it upserts its StatefulSet.
C19_DesiredStateReadOnly ==
    [][/\ mdbStore' # mdbStore =>
              /\ updates' = updates + 1
              /\ \A w \in Workers : pc'[w] = pc[w] /\ trace'[w] = trace[w]
       /\ cmStore' # cmStore =>
              \E w \in Workers :
                  /\ pc[w] = "Fetched" /\ pc'[w] = "ConfigEnsured"
                  /\ trace'[w][Len(trace'[w])] = Event("UpsertConfigMap", "nil")
       /\ stsStore' # stsStore =>
              \E w \in Workers :
                  /\ pc[w] = "ConfigEnsured" /\ pc'[w] = "WorkloadEnsured"
                  /\ trace'[w][Len(trace'[w])] = Event("UpsertStatefulSet", "nil")]_vars

\* the three outcomes with the resource still as the invocation read it
C19_Witness ==
    /\ pc["w1"] = "Done" /\ pc["w2"] = "Failed"
    /\ request["w1"] = request["w2"]
    /\ request["w1"] \in DOMAIN mdbStore
    /\ mdbStore[request["w1"]] = mdb["w1"]
    /\ mdb["w2"] = mdb["w1"]
    /\ DidWith("w2", "UpsertStatefulSet", "UpsertError")

----------------------------------------------------------------------------
(* Reconciliation under retry: the MongoDB resource of one identity exists
   and does not change; the controller starts reconciliations and, as the
   note above Reconcile says, processes a request again whenever Reconcile
   returned an error.  Failures of the store are transient: a call that is
   tried again and again eventually succeeds. *)

InitLive ==
    \E id \in Identities, c \in SpecChoices :
        /\ mdbStore = (id :> MongoDB(id[1], id[2], c[1], c[2]))
        /\ cmStore = << >>
        /\ stsStore = << >>
        /\ agentImage \in AgentImages
        /\ pc = [w \in Workers |-> "Idle"]
        /\ request = [w \in Workers |-> <<"", "">>]
        /\ mdb = [w \in Workers |-> ZeroMongoDB]
        /\ result = [w \in Workers |-> [Requeue |-> FALSE, err |-> "nil"]]
        /\ trace = [w \in Workers |-> << >>]
        /\ overlap = [w \in Workers |-> FALSE]
        /\ lastDone = << >>
        /\ updates = 1
        /\ domainCall = NoDomainCall

\* the first delivery of a request to a worker
FirstDispatch(w, id) == pc[w] = "Idle" /\ Dispatch(w, id)

\* the controller requeues the request because the returned error is non-nil
Requeue(w) ==
    /\ pc[w] = "Failed"
    /\ result[w].err # "nil" \/ result[w].Requeue
    /\ Dispatch(w, request[w])

NextLive ==
    \/ \E w \in Workers, id \in Identities : FirstDispatch(w, id)
    \/ \E w \in Workers : Requeue(w)
    \/ \E w \in Workers : GetFound(w)
    \/ \E w \in Workers : GetNotFound(w)
    \/ \E w \in Workers : GetError(w)
    \/ \E w \in Workers : EnsureAutomationConfigMarshalError(w)
    \/ \E w \in Workers : EnsureAutomationConfigUpsertError(w)
    \/ \E w \in Workers : EnsureAutomationConfigOK(w)
    \/ \E w \in Workers : BuildStatefulSetError(w)
    \/ \E w \in Workers : UpsertStatefulSetError(w)
    \/ \E w \in Workers : UpsertStatefulSetOK(w)
    \/ \E w \in Workers : Finish(w)

FairLive ==
    \A w \in Workers :
        /\ WF_vars(Requeue(w))
        /\ SF_vars(GetFound(w))
        /\ SF_vars(EnsureAutomationConfigOK(w))
        /\ SF_vars(UpsertStatefulSetOK(w))
        /\ WF_vars(Finish(w))

SpecLive == InitLive /\ [][NextLive]_vars /\ FairLive

\* C15: a reconciliation started for an existing resource with at least one
\* member eventually is Done with the ConfigMap and the StatefulSet of its
\* identity stored.
C15_EventuallyDone ==
    \A w \in Workers :
        (/\ pc[w] = "Start"
         /\ request[w] \in DOMAIN mdbStore
         /\ mdbStore[request[w]].Members >= 1)
        ~> (/\ pc[w] = "Done"
            /\ ConfigMapKey(request[w]) \in DOMAIN cmStore
            /\ StatefulSetKey(request[w]) \in DOMAIN stsStore)

\* a reconciliation is Done with both artifacts stored while another one of
\* the same identity has returned an error and awaits its requeue
C15_Witness ==
    /\ pc["w1"] = "Done"
    /\ ConfigMapKey(request["w1"]) \in DOMAIN cmStore
    /\ StatefulSetKey(request["w1"]) \in DOMAIN stsStore
    /\ pc["w2"] = "Failed" /\ request["w2"] = request["w1"]
    /\ result["w2"].err = "UpsertError"

----------------------------------------------------------------------------
(* getDomain on its own: any service name, namespace and cluster domain,
   the empty cluster domain included *)

DomainServices == {"my-rs-service", "ghost-service", "db", "a"}

DomainNamespaces == {"ns1", "ns2", "default", "mongodb"}

ClusterDomains == {"", "cluster.local", "example.com", "my-rs"}

InitDomain ==
    /\ mdbStore = << >>
    /\ cmStore = << >>
    /\ stsStore = << >>
    /\ agentImage \in AgentImages
    /\ pc = [w \in Workers |-> "Idle"]
    /\ request = [w \in Workers |-> <<"", "">>]
    /\ mdb = [w \in Workers |-> ZeroMongoDB]
    /\ result = [w \in Workers |-> [Requeue |-> FALSE, err |-> "nil"]]
    /\ trace = [w \in Workers |-> << >>]
    /\ overlap = [w \in Workers |-> FALSE]
    /\ lastDone = << >>
    /\ updates = 0
    /\ \E s \in DomainServices, n \in DomainNamespaces, c \in ClusterDomains :
           domainCall = DomainCall(s, n, c, FALSE, "")

\* getDomain(service, namespace, clusterName) returns
GetDomainReturns ==
    /\ ~domainCall.returned
    /\ domainCall' = [domainCall EXCEPT
                        !.returned = TRUE,
                        !.result = getDomain(domainCall.service,
                                             domainCall.namespace,
                                             domainCall.clusterName)]
    /\ UNCHANGED <<mdbStore, cmStore, stsStore, agentImage, pc, request, mdb,
                   result, trace, overlap, lastDone, updates>>

NextDomain == GetDomainReturns

SpecDomain == InitDomain /\ [][NextDomain]_vars

\* C12: a call of getDomain with an empty cluster domain returns what the
\* call with the same service and namespace and "cluster.local" returns,
\* namely service.namespace.svc.cluster.local; a call with a non-empty
\* cluster domain c returns service.namespace.svc.c; and every call returns
\* (a string, never a failure).
C12_DomainDefault ==
    /\ ~domainCall.returned => ENABLED GetDomainReturns
    /\ domainCall.returned =>
           LET s == domainCall.service
               n == domainCall.namespace
               c == domainCall.clusterName
           IN  /\ c = "" =>
                      /\ domainCall.result = getDomain(s, n, "cluster.local")
                      /\ domainCall.result
                             = s \o "." \o n \o ".svc.cluster.local"
               /\ c # "" =>
                      domainCall.result = s \o "." \o n \o ".svc." \o c
               /\ domainCall.result # ""

C12_Witness ==
    /\ domainCall.returned
    /\ domainCall.clusterName = ""
    /\ domainCall.service = "my-rs-service"
    /\ domainCall.namespace = "ns1"
    /\ domainCall.result = "my-rs-service.ns1.svc.cluster.local"

====
